---- MODULE Spec2Model ----
(***************************************************************************)
(* High Score Tracker: the GameStore (stores/GameStore.js) on top of one   *)
(* of the storage services of the repository (StorageService over          *)
(* localStorage, MemoryStorageService in its two versions, and             *)
(* GoogleStorageService).                                                  *)
(*                                                                         *)
(* Every async store method is split at its awaits: a Start action runs    *)
(* the synchronous prefix up to the first await, a Resume action runs the  *)
(* continuation up to the next await or the end (finally included).  The   *)
(* localStorage and in-memory services have no await inside, so their      *)
(* effect on the stored documents happens in the step that calls them; the *)
(* Google service is answered by a separate step (BackendRespond).         *)
(*                                                                         *)
(* Values such as 95.5 are kept in tenths (955).  Free-text fields that no *)
(* code path inspects (description, notes) are not carried.                *)
(***************************************************************************)
EXTENDS Integers, Sequences, FiniteSets, TLC

\* ---------------------------------------------------------------- bounds
MaxId == 6          \* uuidv4() is called at most until this id is issued
MaxClock == 0       \* the clock (new Date()) runs from 0 to MaxClock
MaxPending == 1     \* store operations in flight together, one user action at a time
MaxOverlap == 2     \* store operations in flight together when operations overlap
MaxLimit == 3       \* largest explicit limit passed to getLeaderboard
MaxRoster == 12     \* largest roster of the ranking specification
MaxScores == 3      \* longest freely drawn score list of the ranking specification
MaxDate == 1        \* latest instant of a drawn score or filter bound

\* ------------------------------------------------------- program constants
DefaultLimit == 10
MinNameLen == 2
MaxNameLen == 50

VARIABLES
    games,          \* GameStore.games
    currentGame,    \* GameStore.currentGame (NoGame is null)
    players,        \* GameStore.players
    isLoading,      \* GameStore.isLoading
    error,          \* GameStore.error (Null is null)
    backend,        \* which storage service the store was constructed with
    storage,        \* the documents the storage service holds
    storageEmpty,   \* MemoryStorageService.storage.empty
    ops,            \* the store operations suspended at an await
    nextId,         \* the next value uuidv4() returns
    now,            \* the value new Date() returns
    ret             \* the value returned by the call completing in this step

vars == <<games, currentGame, players, isLoading, error, backend, storage,
          storageEmpty, ops, nextId, now, ret>>

storeVars == <<games, currentGame, players, isLoading, error>>

\* ------------------------------------------------------------ JS values
Null == "null"

\* a Date-typed field: undefined, a Date, an Invalid Date, or its JSON form
Undefined == [k |-> "undefined", t |-> 0]
DateOf(t) == [k |-> "Date", t |-> t]
InvalidDate == [k |-> "InvalidDate", t |-> 0]
JsonNull == [k |-> "jsonnull", t |-> 0]
IsoString(t) == [k |-> "isostring", t |-> t]

\* Date.prototype.toJSON under JSON.stringify: an invalid date becomes null,
\* an undefined property is omitted, a string stays a string
DateToJSON(d) ==
    CASE d.k = "Date" -> IsoString(d.t)
      [] d.k = "InvalidDate" -> JsonNull
      [] OTHER -> d

\* new Date(x): undefined gives an Invalid Date, null gives the epoch
NewDate(x) ==
    CASE x.k = "undefined" -> InvalidDate
      [] x.k = "jsonnull" -> DateOf(0)
      [] x.k = "isostring" -> DateOf(x.t)
      [] OTHER -> x

\* x.getTime() is NaN for an Invalid Date
IsNaNTime(d) == d.k # "Date"

\* ------------------------------------------------------------- names
Racing == <<"R", "a", "c", "i", "n", "g">>
RacingPadded == <<" ", "R", "a", "c", "i", "n", "g", " ">>
Sprint == <<"S", "p", "r", "i", "n", "t">>
RacingGame == <<"R", "a", "c", "i", "n", "g", " ", "G", "a", "m", "e">>
racingGame == <<"r", "a", "c", "i", "n", "g", " ", "g", "a", "m", "e">>
Chess == <<"C", "h", "e", "s", "s">>
OneLetter == <<"X">>

StoreNames == {Racing, racingGame}
FormNames == {RacingPadded, Sprint, OneLetter, <<>>}

LowerChar(c) ==
    CASE c = "R" -> "r"
      [] c = "S" -> "s"
      [] c = "G" -> "g"
      [] c = "X" -> "x"
      [] c = "C" -> "c"
      [] OTHER -> c

\* String.prototype.toLowerCase
ToLowerCase(s) == [i \in 1..Len(s) |-> LowerChar(s[i])]

RECURSIVE TrimStart(_)
TrimStart(s) ==
    IF s # <<>> /\ Head(s) = " " THEN TrimStart(Tail(s)) ELSE s

RECURSIVE TrimEnd(_)
TrimEnd(s) ==
    IF s # <<>> /\ s[Len(s)] = " " THEN TrimEnd(SubSeq(s, 1, Len(s) - 1)) ELSE s

\* String.prototype.trim
Trim(s) == TrimEnd(TrimStart(s))

\* ------------------------------------------------------ generic helpers
Range(s) == {s[i] : i \in 1..Len(s)}

\* Array.prototype.findIndex over the ids, 0 standing for -1
IndexOfId(s, id) ==
    IF \E i \in 1..Len(s) : s[i].id = id
    THEN CHOOSE i \in 1..Len(s) : s[i].id = id /\ \A j \in 1..(i - 1) : s[j].id # id
    ELSE 0

\* an element e to sort, with the number k the comparator subtracts and
\* nan when that number is NaN
Keyed(e, k, nan) == [e |-> e, k |-> k, nan |-> nan]

\* comparator(a, b) > 0, for the comparator a.k - b.k; a NaN difference is
\* taken as +0 by Array.prototype.sort
ComesAfter(a, b) == ~a.nan /\ ~b.nan /\ a.k > b.k

RECURSIVE InsertSorted(_, _)
\* x goes behind every element it does not have to precede
InsertSorted(sorted, x) ==
    IF sorted = <<>> THEN <<x>>
    ELSE IF ComesAfter(sorted[Len(sorted)], x)
         THEN Append(InsertSorted(SubSeq(sorted, 1, Len(sorted) - 1), x),
                     sorted[Len(sorted)])
         ELSE Append(sorted, x)

RECURSIVE SortKeyed(_)
\* Array.prototype.sort, which is stable, on keyed elements
SortKeyed(s) ==
    IF s = <<>> THEN <<>>
    ELSE InsertSorted(SortKeyed(SubSeq(s, 1, Len(s) - 1)), s[Len(s)])

Unkeyed(s) == [i \in 1..Len(s) |-> s[i].e]

\* Array.prototype.slice(0, n) for n >= 0
Slice0(s, n) == SubSeq(s, 1, IF n < Len(s) THEN n ELSE Len(s))

Min(a, b) == IF a < b THEN a ELSE b

\* ------------------------------------------------------------ documents
NoGame == [id |-> 0, name |-> <<>>, isTimeBased |-> FALSE, scores |-> <<>>,
           createdAt |-> Undefined, updatedAt |-> Undefined]

NewScore(id, playerId, playerName, value, isTime, achievedAt) ==
    [id |-> id, playerId |-> playerId, playerName |-> playerName,
     value |-> value, isTime |-> isTime, achievedAt |-> achievedAt]

NoScore == NewScore(0, 0, "", 0, FALSE, Undefined)

NewPlayer(id, name, createdAt) == [id |-> id, name |-> name, createdAt |-> createdAt]

\* JSON.stringify followed by JSON.parse of a game
GameToJSON(g) ==
    [g EXCEPT !.createdAt = DateToJSON(@),
              !.updatedAt = DateToJSON(@),
              !.scores = [i \in 1..Len(g.scores) |->
                            [g.scores[i] EXCEPT !.achievedAt = DateToJSON(@)]]]

\* StorageService.deserializeGame, GoogleStorageService.deserializeGame
deserializeGame(gameData) ==
    [gameData EXCEPT !.createdAt = NewDate(@),
                     !.updatedAt = NewDate(@),
                     !.scores = [i \in 1..Len(gameData.scores) |->
                                   [gameData.scores[i] EXCEPT !.achievedAt = NewDate(@)]]]

\* ----------------------------------------------------- storage services
Backends == {"local", "memoryV1", "memory", "cloud"}

\* a stored document: the game as stored and, for the bucket, the
\* lastUpdated metadata of the file
Entry(game, stamp) == [id |-> game.id, game |-> game, lastUpdated |-> stamp]

\* games[game.id] = gameFile: an existing key keeps its place
Upsert(st, e) ==
    IF IndexOfId(st, e.id) = 0 THEN Append(st, e)
    ELSE [st EXCEPT ![IndexOfId(st, e.id)] = e]

\* delete games[gameId]
Remove(st, id) == SelectSeq(st, LAMBDA e : e.id # id)

HasDoc(st, id) == IndexOfId(st, id) # 0

DocOf(st, id) == st[IndexOfId(st, id)]

\* a call of a storage service method
NoCall == [fn |-> "none", id |-> 0, game |-> NoGame, stamp |-> 0]
SaveCall(game, stamp) == [fn |-> "saveGame", id |-> game.id, game |-> game, stamp |-> stamp]
LoadCall(id) == [fn |-> "loadGame", id |-> id, game |-> NoGame, stamp |-> 0]
DeleteCall(id) == [fn |-> "deleteGame", id |-> id, game |-> NoGame, stamp |-> 0]
ListCall == [fn |-> "listGames", id |-> 0, game |-> NoGame, stamp |-> 0]

\* what the awaited promise settles to: { success: true, data },
\* { success: false, error }, undefined, an object that is no response, or
\* a rejection
NoResp == [kind |-> "none", error |-> Null, data |-> NoGame, list |-> <<>>]
Ok(data, list) == [kind |-> "ok", error |-> Null, data |-> data, list |-> list]
Fail(msg) == [kind |-> "fail", error |-> msg, data |-> NoGame, list |-> <<>>]
UndefinedResp == [kind |-> "undefined", error |-> Null, data |-> NoGame, list |-> <<>>]
ObjectResp(g) == [kind |-> "object", error |-> Null, data |-> g, list |-> <<>>]
Rejected(msg) == [kind |-> "rejected", error |-> msg, data |-> NoGame, list |-> <<>>]

Outcome(st, empty, resp) == [storage |-> st, empty |-> empty, resp |-> resp]

Summary(id, name, updatedAt) == [id |-> id, name |-> name, updatedAt |-> updatedAt]

\* gameList.sort((a, b) => b.updatedAt.getTime() - a.updatedAt.getTime())
SortByUpdatedDesc(list) ==
    Unkeyed(SortKeyed([i \in 1..Len(list) |->
        Keyed(list[i], 0 - list[i].updatedAt.t, IsNaNTime(list[i].updatedAt))]))

\* StorageService (localStorage).  io is whether localStorage.setItem works:
\* saveGamesToStorage catches and logs the exception of a failed write.
LocalSaveGame(st, c, io) ==
    Outcome(IF io THEN Upsert(st, Entry(GameToJSON(c.game), 0)) ELSE st, FALSE,
            Ok(NoGame, <<>>))

LocalLoadGame(st, c) ==
    IF ~HasDoc(st, c.id) THEN Outcome(st, FALSE, Fail("Game not found"))
    ELSE Outcome(st, FALSE, Ok(deserializeGame(DocOf(st, c.id).game), <<>>))

LocalListGames(st) ==
    Outcome(st, FALSE,
            Ok(NoGame, SortByUpdatedDesc([i \in 1..Len(st) |->
                   Summary(st[i].id, st[i].game.name, NewDate(st[i].game.updatedAt))])))

LocalDeleteGame(st, c, io) ==
    IF ~HasDoc(st, c.id) THEN Outcome(st, FALSE, Fail("Game not found"))
    ELSE Outcome(IF io THEN Remove(st, c.id) ELSE st, FALSE, Ok(NoGame, <<>>))

StorageService(st, c, io) ==
    CASE c.fn = "saveGame" -> LocalSaveGame(st, c, io)
      [] c.fn = "loadGame" -> LocalLoadGame(st, c)
      [] c.fn = "listGames" -> LocalListGames(st)
      [] c.fn = "deleteGame" -> LocalDeleteGame(st, c, io)

\* MemoryStorageService, second version of the file: the game object itself
\* is kept; listGames calls forEach on the plain object this.storage, which
\* throws inside the promise executor unless storage.empty is still set
MemorySaveGame(st, c) == Outcome(Upsert(st, Entry(c.game, 0)), FALSE, Ok(NoGame, <<>>))

MemoryLoadGame(st, empty, c) ==
    Outcome(st, empty, Ok(IF HasDoc(st, c.id) THEN DocOf(st, c.id).game ELSE NoGame, <<>>))

MemoryDeleteGame(st, empty, c) == Outcome(Remove(st, c.id), empty, Ok(NoGame, <<>>))

MemoryListGames(st, empty) ==
    IF empty THEN Outcome(st, empty, Ok(NoGame, <<>>))
    ELSE Outcome(st, empty, Rejected("this.storage.forEach is not a function"))

MemoryStorageService(st, empty, c) ==
    CASE c.fn = "saveGame" -> MemorySaveGame(st, c)
      [] c.fn = "loadGame" -> MemoryLoadGame(st, empty, c)
      [] c.fn = "listGames" -> MemoryListGames(st, empty)
      [] c.fn = "deleteGame" -> MemoryDeleteGame(st, empty, c)

\* MemoryStorageService, first version of the file: saveGame and deleteGame
\* return nothing, loadGame returns the stored object or undefined
MemoryV1SaveGame(st, c) == Outcome(Upsert(st, Entry(c.game, 0)), FALSE, UndefinedResp)

MemoryV1LoadGame(st, empty, c) ==
    Outcome(st, empty, IF HasDoc(st, c.id) THEN ObjectResp(DocOf(st, c.id).game)
                       ELSE UndefinedResp)

MemoryV1DeleteGame(st, empty, c) == Outcome(Remove(st, c.id), empty, UndefinedResp)

MemoryV1StorageService(st, empty, c) ==
    CASE c.fn = "saveGame" -> MemoryV1SaveGame(st, c)
      [] c.fn = "loadGame" -> MemoryV1LoadGame(st, empty, c)
      [] c.fn = "listGames" -> MemoryListGames(st, empty)
      [] c.fn = "deleteGame" -> MemoryV1DeleteGame(st, empty, c)

\* GoogleStorageService.  io is whether the requests to the bucket work; a
\* failed request throws and the method's catch reports it.
NetworkError == "network error"

GoogleSaveGame(st, c, io) ==
    IF ~io THEN Outcome(st, FALSE, Fail(NetworkError))
    ELSE Outcome(Upsert(st, Entry(GameToJSON(c.game), c.stamp)), FALSE, Ok(NoGame, <<>>))

GoogleLoadGame(st, c, io) ==
    IF ~io THEN Outcome(st, FALSE, Fail(NetworkError))
    ELSE IF ~HasDoc(st, c.id) THEN Outcome(st, FALSE, Fail("Game not found"))
    ELSE Outcome(st, FALSE, Ok(deserializeGame(DocOf(st, c.id).game), <<>>))

\* bucket.getFiles lists the files by name
FilesByName(st) ==
    Unkeyed(SortKeyed([i \in 1..Len(st) |-> Keyed(st[i], st[i].id, FALSE)]))

GoogleListGames(st, io) ==
    IF ~io THEN Outcome(st, FALSE, Fail(NetworkError))
    ELSE Outcome(st, FALSE,
            Ok(NoGame, SortByUpdatedDesc([i \in 1..Len(st) |->
                   Summary(FilesByName(st)[i].id, FilesByName(st)[i].game.name,
                           DateOf(FilesByName(st)[i].lastUpdated))])))

GoogleDeleteGame(st, c, io) ==
    IF ~io THEN Outcome(st, FALSE, Fail(NetworkError))
    ELSE IF ~HasDoc(st, c.id) THEN Outcome(st, FALSE, Fail("Game not found"))
    ELSE Outcome(Remove(st, c.id), FALSE, Ok(NoGame, <<>>))

GoogleStorageService(st, c, io) ==
    CASE c.fn = "saveGame" -> GoogleSaveGame(st, c, io)
      [] c.fn = "loadGame" -> GoogleLoadGame(st, c, io)
      [] c.fn = "listGames" -> GoogleListGames(st, io)
      [] c.fn = "deleteGame" -> GoogleDeleteGame(st, c, io)

\* the storageService the store was constructed with
Service(b, st, empty, c, io) ==
    CASE b = "local" -> [StorageService(st, c, io) EXCEPT !.empty = empty]
      [] b = "memory" -> MemoryStorageService(st, empty, c)
      [] b = "memoryV1" -> MemoryV1StorageService(st, empty, c)
      [] b = "cloud" -> [GoogleStorageService(st, c, io) EXCEPT !.empty = empty]

\* the outcomes of the underlying I/O a service call can meet
IOOutcomes(b, c) ==
    CASE b = "local" -> IF c.fn \in {"saveGame", "deleteGame"} THEN BOOLEAN ELSE {TRUE}
      [] b = "cloud" -> BOOLEAN
      [] OTHER -> {TRUE}

\* ------------------------------------------------------------ the store
\* what new Date() can return: the clock reads as before or has advanced
Instants == {t \in {now, now + 1} : t <= MaxClock}

Idle == [op |-> "idle", stage |-> "idle", c |-> NoCall, resp |-> NoResp,
         todo |-> <<>>, loaded |-> <<>>]

\* a store method suspended at `await this.storageService.<c.fn>(...)`;
\* stage "sent": the service has not settled the promise yet, "ready": it has
Suspended(op, stage, c, resp, todo, loaded) ==
    [op |-> op, stage |-> stage, c |-> c, resp |-> resp, todo |-> todo,
     loaded |-> loaded]

Slots == DOMAIN ops

FreeSlot(s) == ops[s].op = "idle" /\ \A t \in 1..(s - 1) : ops[t].op # "idle"

\* what a call returned: ok and id for the store's commands (id 0 is null),
\* best and board for the two ranking queries
\* ScoreFilter: an absent field is undefined; playerId 0 stands for undefined
Filter(playerId, dateFrom, dateTo, hasLimit, limit) ==
    [present |-> TRUE, playerId |-> playerId, dateFrom |-> dateFrom, dateTo |-> dateTo,
     hasLimit |-> hasLimit, limit |-> limit]

\* getScores called without a filter
NoFilter == [present |-> FALSE, playerId |-> 0, dateFrom |-> Undefined,
             dateTo |-> Undefined, hasLimit |-> FALSE, limit |-> 0]

NoRet == [op |-> "none", ok |-> FALSE, id |-> 0, best |-> NoScore, board |-> <<>>,
          scores |-> <<>>]
Return(op, ok, id) == [NoRet EXCEPT !.op = op, !.ok = ok, !.id = id]

GameIds == {games[i].id : i \in 1..Len(games)}
StoredIds == {storage[i].id : i \in 1..Len(storage)}
PlayerIds == {players[i].id : i \in 1..Len(players)}

\* this.games.find((g) => g.id === gameId), NoGame when there is none
FindGame(gs, gameId) ==
    IF IndexOfId(gs, gameId) = 0 THEN NoGame ELSE gs[IndexOfId(gs, gameId)]

\* `await this.storageService.<c.fn>(...)` in slot s of operation op: the
\* synchronous services act at once, the bucket is asked and answers later
Await(s, op, c, todo, loaded) ==
    IF backend = "cloud"
    THEN /\ ops' = [ops EXCEPT ![s] = Suspended(op, "sent", c, NoResp, todo, loaded)]
         /\ UNCHANGED <<storage, storageEmpty>>
    ELSE \E io \in IOOutcomes(backend, c) :
           LET r == Service(backend, storage, storageEmpty, c, io) IN
           /\ storage' = r.storage
           /\ storageEmpty' = r.empty
           /\ ops' = [ops EXCEPT ![s] = Suspended(op, "ready", c, r.resp, todo, loaded)]

\* the bucket settles the request of slot s
BackendRespond(s) ==
    /\ ops[s].stage = "sent"
    /\ \E io \in IOOutcomes(backend, ops[s].c) :
         LET r == Service(backend, storage, storageEmpty, ops[s].c, io) IN
         /\ storage' = r.storage
         /\ storageEmpty' = r.empty
         /\ ops' = [ops EXCEPT ![s] = [@ EXCEPT !.stage = "ready", !.resp = r.resp]]
    /\ ret' = NoRet
    /\ UNCHANGED <<storeVars, backend, nextId, now>>

\* `response.success` and the catch clause: reading a property of undefined
\* and a rejected promise both end in catch (error)
Throws(resp) == resp.kind \in {"undefined", "rejected"}

ThrownMessage(resp) ==
    IF resp.kind = "rejected" THEN resp.error
    ELSE "Cannot read properties of undefined (reading 'success')"

\* response.error || fallback
ErrorOr(resp, fallback) == IF resp.error # Null THEN resp.error ELSE fallback

\* the method returns without resetting the loading flag
FinishLeavesLoading(s, r) ==
    /\ ops' = [ops EXCEPT ![s] = Idle]
    /\ ret' = r
    /\ UNCHANGED <<isLoading, storage, storageEmpty>>

\* the method of slot s returns: finally { this.setLoading(false) }
Finish(s, r) ==
    /\ isLoading' = FALSE
    /\ ops' = [ops EXCEPT ![s] = Idle]
    /\ ret' = r
    /\ UNCHANGED <<storage, storageEmpty>>

\* GameStore.loadGames up to `await this.storageService.listGames()`
LoadGamesStart(s) ==
    /\ FreeSlot(s)
    /\ isLoading' = TRUE
    /\ error' = Null
    /\ Await(s, "loadGames", ListCall, <<>>, <<>>)
    /\ ret' = NoRet
    /\ UNCHANGED <<games, currentGame, players, backend, nextId, now>>

\* a failed listing empties the list of games
LoadGamesListedClearsGames(s) ==
    LET resp == ops[s].resp IN
    /\ ops[s].op = "loadGames" /\ ops[s].stage = "ready" /\ ops[s].c.fn = "listGames"
    /\ IF Throws(resp)
       THEN /\ error' = ThrownMessage(resp)
            /\ Finish(s, Return("loadGames", FALSE, 0))
            /\ games' = <<>>
       ELSE IF resp.kind # "ok"
       THEN /\ error' = ErrorOr(resp, "Failed to load games")
            /\ Finish(s, Return("loadGames", FALSE, 0))
            /\ games' = <<>>
       ELSE IF resp.list = <<>>
       THEN /\ games' = <<>>
            /\ Finish(s, Return("loadGames", TRUE, 0))
            /\ UNCHANGED error
       ELSE /\ Await(s, "loadGames", LoadCall(resp.list[1].id),
                     [i \in 1..(Len(resp.list) - 1) |-> resp.list[i + 1].id], <<>>)
            /\ ret' = NoRet
            /\ UNCHANGED <<games, isLoading, error>>
    /\ UNCHANGED <<currentGame, players, backend, nextId, now>>

\* GameStore.loadGames after listGames settled
LoadGamesListed(s) ==
    LET resp == ops[s].resp IN
    /\ ops[s].op = "loadGames" /\ ops[s].stage = "ready" /\ ops[s].c.fn = "listGames"
    /\ IF Throws(resp)
       THEN /\ error' = ThrownMessage(resp)
            /\ Finish(s, Return("loadGames", FALSE, 0))
            /\ UNCHANGED games
       ELSE IF resp.kind # "ok"
       THEN /\ error' = ErrorOr(resp, "Failed to load games")
            /\ Finish(s, Return("loadGames", FALSE, 0))
            /\ UNCHANGED games
       ELSE IF resp.list = <<>>
       THEN /\ games' = <<>>
            /\ Finish(s, Return("loadGames", TRUE, 0))
            /\ UNCHANGED error
       ELSE /\ Await(s, "loadGames", LoadCall(resp.list[1].id),
                     [i \in 1..(Len(resp.list) - 1) |-> resp.list[i + 1].id], <<>>)
            /\ ret' = NoRet
            /\ UNCHANGED <<games, isLoading, error>>
    /\ UNCHANGED <<currentGame, players, backend, nextId, now>>

\* the first game that fails to load ends the load
LoadGamesLoadedStopsAtFailure(s) ==
    LET resp == ops[s].resp
        loadedGames == IF resp.kind = "ok" /\ resp.data # NoGame
                       THEN Append(ops[s].loaded, resp.data)
                       ELSE ops[s].loaded
    IN
    /\ ops[s].op = "loadGames" /\ ops[s].stage = "ready" /\ ops[s].c.fn = "loadGame"
    /\ IF Throws(resp)
       THEN /\ error' = ThrownMessage(resp)
            /\ Finish(s, Return("loadGames", FALSE, 0))
            /\ UNCHANGED games
       ELSE IF resp.kind # "ok"
       THEN /\ error' = ErrorOr(resp, "Failed to load games")
            /\ Finish(s, Return("loadGames", FALSE, 0))
            /\ UNCHANGED games
       ELSE IF ops[s].todo = <<>>
       THEN /\ games' = loadedGames
            /\ Finish(s, Return("loadGames", TRUE, 0))
            /\ UNCHANGED error
       ELSE /\ Await(s, "loadGames", LoadCall(Head(ops[s].todo)), Tail(ops[s].todo),
                     loadedGames)
            /\ ret' = NoRet
            /\ UNCHANGED <<games, isLoading, error>>
    /\ UNCHANGED <<currentGame, players, backend, nextId, now>>

\* GameStore.loadGames after one loadGame settled
LoadGamesLoaded(s) ==
    LET resp == ops[s].resp
        loadedGames == IF resp.kind = "ok" /\ resp.data # NoGame
                       THEN Append(ops[s].loaded, resp.data)
                       ELSE ops[s].loaded
    IN
    /\ ops[s].op = "loadGames" /\ ops[s].stage = "ready" /\ ops[s].c.fn = "loadGame"
    /\ IF Throws(resp)
       THEN /\ error' = ThrownMessage(resp)
            /\ Finish(s, Return("loadGames", FALSE, 0))
            /\ UNCHANGED games
       ELSE IF ops[s].todo = <<>>
       THEN /\ games' = loadedGames
            /\ Finish(s, Return("loadGames", TRUE, 0))
            /\ UNCHANGED error
       ELSE /\ Await(s, "loadGames", LoadCall(Head(ops[s].todo)), Tail(ops[s].todo),
                     loadedGames)
            /\ ret' = NoRet
            /\ UNCHANGED <<games, isLoading, error>>
    /\ UNCHANGED <<currentGame, players, backend, nextId, now>>

\* the new game is shown before it is saved
CreateGameStartOptimistic(s, name, isTimeBased, t) ==
    LET newGame == [id |-> nextId, name |-> name, isTimeBased |-> isTimeBased,
                    scores |-> <<>>, createdAt |-> Undefined, updatedAt |-> Undefined]
    IN
    /\ FreeSlot(s)
    /\ isLoading' = TRUE
    /\ error' = Null
    /\ nextId' = nextId + 1
    /\ now' = t
    /\ games' = Append(games, newGame)
    /\ Await(s, "createGame", SaveCall(newGame, t), <<>>, <<>>)
    /\ ret' = NoRet
    /\ UNCHANGED <<currentGame, players, backend>>

\* GameStore.createGame up to `await this.storageService.saveGame(newGame)`
CreateGameStart(s, name, isTimeBased, t) ==
    LET newGame == [id |-> nextId, name |-> name, isTimeBased |-> isTimeBased,
                    scores |-> <<>>, createdAt |-> Undefined, updatedAt |-> Undefined]
    IN
    /\ FreeSlot(s)
    /\ isLoading' = TRUE
    /\ error' = Null
    /\ nextId' = nextId + 1
    /\ now' = t
    /\ Await(s, "createGame", SaveCall(newGame, t), <<>>, <<>>)
    /\ ret' = NoRet
    /\ UNCHANGED <<games, currentGame, players, backend>>

\* GameStore.createGame after saveGame settled
CreateGameResume(s) ==
    LET resp == ops[s].resp
        newGame == ops[s].c.game
    IN
    /\ ops[s].op = "createGame" /\ ops[s].stage = "ready"
    /\ IF Throws(resp)
       THEN /\ error' = ThrownMessage(resp)
            /\ Finish(s, Return("createGame", FALSE, 0))
            /\ UNCHANGED games
       ELSE IF resp.kind # "ok"
       THEN /\ error' = ErrorOr(resp, "Failed to save game")
            /\ Finish(s, Return("createGame", FALSE, 0))
            /\ UNCHANGED games
       ELSE /\ games' = Append(games, newGame)
            /\ Finish(s, Return("createGame", TRUE, newGame.id))
            /\ UNCHANGED error
    /\ UNCHANGED <<currentGame, players, backend, nextId, now>>

\* the miss is reported as a success
AddScoreNotFoundReturnsTrue(gameId) ==
    /\ FindGame(games, gameId) = NoGame
    /\ error' = "Game not found"
    /\ isLoading' = FALSE
    /\ ret' = Return("addScore", TRUE, 0)
    /\ UNCHANGED <<games, currentGame, players, backend, storage, storageEmpty,
                   ops, nextId, now>>

\* GameStore.addScore when this.games.find misses: the method returns before
\* any await
AddScoreNotFound(gameId) ==
    /\ FindGame(games, gameId) = NoGame
    /\ error' = "Game not found"
    /\ isLoading' = FALSE
    /\ ret' = Return("addScore", FALSE, 0)
    /\ UNCHANGED <<games, currentGame, players, backend, storage, storageEmpty,
                   ops, nextId, now>>

\* every score counts as a time
newScoreAlwaysTime(game, id, playerId, playerName, value, t) ==
    NewScore(id, playerId, playerName, value, TRUE, DateOf(t))

\* GameStore.addScore: const newScore = { id: uuidv4(), ..., isTime:
\* game.isTimeBased, achievedAt: new Date(), notes }
newScore(game, id, playerId, playerName, value, t) ==
    NewScore(id, playerId, playerName, value, game.isTimeBased, DateOf(t))

\* GameStore.addScore up to `await this.storageService.saveGame(updatedGame)`
AddScoreStart(s, gameId, playerId, playerName, value, t) ==
    LET game == FindGame(games, gameId)
        added == newScore(game, nextId, playerId, playerName, value, t)
        updatedGame == [game EXCEPT !.scores = Append(game.scores, added)]
    IN
    /\ FreeSlot(s)
    /\ game # NoGame
    /\ isLoading' = TRUE
    /\ error' = Null
    /\ nextId' = nextId + 1
    /\ now' = t
    /\ Await(s, "addScore", SaveCall(updatedGame, t), <<>>, <<>>)
    /\ ret' = NoRet
    /\ UNCHANGED <<games, currentGame, players, backend>>

\* the updated game is shown whatever saveGame reported
AddScoreResumeCommitsAnyway(s) ==
    LET resp == ops[s].resp
        updatedGame == ops[s].c.game
        gameIndex == IndexOfId(games, updatedGame.id)
    IN
    /\ ops[s].op = "addScore" /\ ops[s].stage = "ready"
    /\ games' = IF gameIndex # 0 THEN [games EXCEPT ![gameIndex] = updatedGame]
                 ELSE games
    /\ IF Throws(resp)
       THEN /\ error' = ThrownMessage(resp)
            /\ Finish(s, Return("addScore", FALSE, 0))
       ELSE IF resp.kind # "ok"
       THEN /\ error' = ErrorOr(resp, "Failed to save score")
            /\ Finish(s, Return("addScore", FALSE, 0))
       ELSE /\ Finish(s, Return("addScore", TRUE, 0))
            /\ UNCHANGED error
    /\ UNCHANGED <<currentGame, players, backend, nextId, now>>

\* GameStore.addScore after saveGame settled
AddScoreResume(s) ==
    LET resp == ops[s].resp
        updatedGame == ops[s].c.game
        gameIndex == IndexOfId(games, updatedGame.id)
    IN
    /\ ops[s].op = "addScore" /\ ops[s].stage = "ready"
    /\ IF Throws(resp)
       THEN /\ error' = ThrownMessage(resp)
            /\ Finish(s, Return("addScore", FALSE, 0))
            /\ UNCHANGED games
       ELSE IF resp.kind # "ok"
       THEN /\ error' = ErrorOr(resp, "Failed to save score")
            /\ Finish(s, Return("addScore", FALSE, 0))
            /\ UNCHANGED games
       ELSE /\ games' = IF gameIndex # 0 THEN [games EXCEPT ![gameIndex] = updatedGame]
                        ELSE games
            /\ Finish(s, Return("addScore", TRUE, 0))
            /\ UNCHANGED error
    /\ UNCHANGED <<currentGame, players, backend, nextId, now>>

\* GameStore.deleteGame up to `await this.storageService.deleteGame(gameId)`
DeleteGameStart(s, gameId) ==
    /\ FreeSlot(s)
    /\ isLoading' = TRUE
    /\ error' = Null
    /\ Await(s, "deleteGame", DeleteCall(gameId), <<>>, <<>>)
    /\ ret' = NoRet
    /\ UNCHANGED <<games, currentGame, players, backend, nextId, now>>

\* the game is taken from memory whatever the service reported
DeleteGameResumeRemovesAnyway(s) ==
    LET resp == ops[s].resp
        gameId == ops[s].c.id
    IN
    /\ ops[s].op = "deleteGame" /\ ops[s].stage = "ready"
    /\ games' = SelectSeq(games, LAMBDA g : g.id # gameId)
    /\ currentGame' = IF currentGame.id = gameId THEN NoGame ELSE currentGame
    /\ IF Throws(resp)
       THEN /\ error' = ThrownMessage(resp)
            /\ Finish(s, Return("deleteGame", FALSE, 0))
       ELSE IF resp.kind # "ok"
       THEN /\ error' = ErrorOr(resp, "Failed to delete game")
            /\ Finish(s, Return("deleteGame", FALSE, 0))
       ELSE /\ Finish(s, Return("deleteGame", TRUE, 0))
            /\ UNCHANGED error
    /\ UNCHANGED <<players, backend, nextId, now>>

\* GameStore.deleteGame after the service's deleteGame settled
DeleteGameResume(s) ==
    LET resp == ops[s].resp
        gameId == ops[s].c.id
    IN
    /\ ops[s].op = "deleteGame" /\ ops[s].stage = "ready"
    /\ IF Throws(resp)
       THEN /\ error' = ThrownMessage(resp)
            /\ Finish(s, Return("deleteGame", FALSE, 0))
            /\ UNCHANGED <<games, currentGame>>
       ELSE IF resp.kind # "ok"
       THEN /\ error' = ErrorOr(resp, "Failed to delete game")
            /\ Finish(s, Return("deleteGame", FALSE, 0))
            /\ UNCHANGED <<games, currentGame>>
       ELSE /\ games' = SelectSeq(games, LAMBDA g : g.id # gameId)
            /\ currentGame' = IF currentGame.id = gameId THEN NoGame ELSE currentGame
            /\ Finish(s, Return("deleteGame", TRUE, 0))
            /\ UNCHANGED error
    /\ UNCHANGED <<players, backend, nextId, now>>

\* GameStore.setCurrentGame; gameId 0 is null
SetCurrentGame(gameId) ==
    /\ currentGame' = IF gameId # 0 THEN FindGame(games, gameId) ELSE NoGame
    /\ ret' = NoRet
    /\ UNCHANGED <<games, players, isLoading, error, backend, storage, storageEmpty,
                   ops, nextId, now>>

\* the id is the length of the roster
AddPlayerCountsIds(name, t) ==
    /\ now' = t
    /\ players' = Append(players, NewPlayer(Len(players), name, DateOf(t)))
    /\ nextId' = nextId + 1
    /\ ret' = Return("addPlayer", TRUE, Len(players))
    /\ UNCHANGED <<games, currentGame, isLoading, error, backend, storage,
                   storageEmpty, ops>>

\* GameStore.addPlayer
AddPlayer(name, t) ==
    /\ now' = t
    /\ players' = Append(players, NewPlayer(nextId, name, DateOf(t)))
    /\ nextId' = nextId + 1
    /\ ret' = Return("addPlayer", TRUE, nextId)
    /\ UNCHANGED <<games, currentGame, isLoading, error, backend, storage,
                   storageEmpty, ops>>

\* AddGameForm.validateForm: the fields that are in error
validateForm(name, gs) ==
    (IF Trim(name) = <<>> \/ Len(Trim(name)) < MinNameLen \/ Len(Trim(name)) > MaxNameLen
        \/ \E i \in 1..Len(gs) : ToLowerCase(gs[i].name) = ToLowerCase(Trim(name))
     THEN {"name"} ELSE {})

\* AddGameForm.handleSubmit with an empty description
AddGameFormSubmit(s, name, isTimeBased, t) ==
    /\ validateForm(name, games) = {}
    /\ CreateGameStart(s, Trim(name), isTimeBased, t)

\* ------------------------------------------------------- the whole program
Alice == NewPlayer(1, "Alice", DateOf(0))
Bob == NewPlayer(2, "Bob", DateOf(0))

\* GameStore.initializeSampleData
sampleGame ==
    [id |-> 3, name |-> RacingGame, isTimeBased |-> TRUE,
     scores |-> << NewScore(4, Alice.id, Alice.name, 955, TRUE, DateOf(0)),
                   NewScore(5, Bob.id, Bob.name, 982, TRUE, DateOf(0)) >>,
     createdAt |-> Undefined, updatedAt |-> Undefined]

FirstFreshId == 6

Values == {955, 982}
\* the values handed to addScore: one that ties with a sample score, one below 0
StoreValues == {955, 0 - 5}
NewPlayerNames == {"Carol"}
UnknownId == 0

\* what an earlier session of the application left in localStorage or in the
\* bucket: a score-based game with one score of that session's Alice, whose
\* uuid was another one, and a time-based game without scores
PriorAliceId == 21

PriorDocs ==
    << Entry(GameToJSON([id |-> 11, name |-> Chess, isTimeBased |-> FALSE,
                         scores |-> << NewScore(12, PriorAliceId, "Alice", 982, FALSE,
                                                DateOf(0)) >>,
                         createdAt |-> Undefined, updatedAt |-> Undefined]), 0),
       Entry(GameToJSON([id |-> 13, name |-> Sprint, isTimeBased |-> TRUE,
                         scores |-> <<>>,
                         createdAt |-> Undefined, updatedAt |-> Undefined]), 0) >>

\* localStorage and the bucket outlive the page, the in-memory services do not
InitialStorages(b) == IF b \in {"local", "cloud"} THEN {<<>>, PriorDocs} ELSE {<<>>}

\* GameStore constructor
Init ==
    /\ games = <<sampleGame>>
    /\ currentGame = NoGame
    /\ players = <<Alice, Bob>>
    /\ isLoading = FALSE
    /\ error = Null
    /\ backend \in Backends
    /\ storage \in InitialStorages(backend)
    /\ storageEmpty = TRUE
    /\ ops = [s \in 1..MaxPending |-> Idle]
    /\ nextId = FirstFreshId
    /\ now = 0
    /\ ret = NoRet

\* the ids a caller may pass: of the games shown, of the stored ones, none
KnownIds == GameIds \cup StoredIds \cup {UnknownId}

\* uuidv4() has values left
IdsLeft == nextId <= MaxId

Next ==
    \/ \E s \in Slots : LoadGamesStart(s)
    \/ \E s \in Slots : LoadGamesListed(s)
    \/ \E s \in Slots : LoadGamesLoaded(s)
    \/ \E s \in Slots, name \in StoreNames, tb \in BOOLEAN, t \in Instants :
          IdsLeft /\ CreateGameStart(s, name, tb, t)
    \/ \E s \in Slots, name \in FormNames, tb \in BOOLEAN, t \in Instants :
          IdsLeft /\ AddGameFormSubmit(s, name, tb, t)
    \/ \E s \in Slots : CreateGameResume(s)
    \/ \E gameId \in KnownIds : AddScoreNotFound(gameId)
    \/ \E s \in Slots, gameId \in KnownIds, i \in 1..Len(players), value \in StoreValues,
          t \in Instants :
          IdsLeft /\ AddScoreStart(s, gameId, players[i].id, players[i].name, value, t)
    \/ \E s \in Slots : AddScoreResume(s)
    \/ \E s \in Slots, gameId \in KnownIds : DeleteGameStart(s, gameId)
    \/ \E s \in Slots : DeleteGameResume(s)
    \/ \E s \in Slots : BackendRespond(s)
    \/ \E gameId \in KnownIds : SetCurrentGame(gameId)
    \/ \E name \in NewPlayerNames, t \in Instants : IdsLeft /\ AddPlayer(name, t)

Spec == Init /\ [][Next]_vars

\* the event loop runs the continuation of an await once the awaited promise
\* has settled, and every request to the bucket is answered
SpecLive ==
    Init /\ [][Next]_vars
    /\ \A s \in 1..MaxPending :
          /\ WF_vars(BackendRespond(s))
          /\ WF_vars(LoadGamesListed(s))
          /\ WF_vars(LoadGamesLoaded(s))
          /\ WF_vars(CreateGameResume(s))
          /\ WF_vars(AddScoreResume(s))
          /\ WF_vars(DeleteGameResume(s))

\* the store on a device without earlier data, when a second operation may
\* start before the first has completed
InitOverlap ==
    /\ games = <<sampleGame>>
    /\ currentGame = NoGame
    /\ players = <<Alice, Bob>>
    /\ isLoading = FALSE
    /\ error = Null
    /\ backend \in Backends
    /\ storage = <<>>
    /\ storageEmpty = TRUE
    /\ ops = [s \in 1..MaxOverlap |-> Idle]
    /\ nextId = FirstFreshId
    /\ now = 0
    /\ ret = NoRet

\* the four asynchronous operations, started while others are suspended;
\* uuidv4() has a value for each operation in flight
NextOverlap ==
    \/ \E s \in Slots : LoadGamesStart(s)
    \/ \E s \in Slots : LoadGamesListed(s)
    \/ \E s \in Slots : LoadGamesLoaded(s)
    \/ \E s \in Slots, t \in Instants :
          nextId < FirstFreshId + MaxOverlap /\ CreateGameStart(s, Racing, TRUE, t)
    \/ \E s \in Slots : CreateGameResume(s)
    \/ \E s \in Slots, gameId \in GameIds, t \in Instants :
          nextId < FirstFreshId + MaxOverlap /\ AddScoreStart(s, gameId, Alice.id, Alice.name, 955, t)
    \/ \E s \in Slots : AddScoreResume(s)
    \/ \E s \in Slots, gameId \in GameIds : DeleteGameStart(s, gameId)
    \/ \E s \in Slots : DeleteGameResume(s)
    \/ \E s \in Slots : BackendRespond(s)

SpecOverlap == InitOverlap /\ [][NextOverlap]_vars

\* ------------------------------------------------------------- ranking
RECURSIVE ReduceBest(_, _, _)
\* playerScores.reduce((best, current) => ...) without an initial value
ReduceBest(isTimeBased, best, rest) ==
    IF rest = <<>> THEN best
    ELSE IF isTimeBased
         THEN ReduceBest(isTimeBased,
                         IF Head(rest).value < best.value THEN Head(rest) ELSE best,
                         Tail(rest))
         ELSE ReduceBest(isTimeBased,
                         IF Head(rest).value > best.value THEN Head(rest) ELSE best,
                         Tail(rest))

\* the last of the tied scores wins: the reduction runs from the end
getBestScoreLatestOnTie(gameId, playerId) ==
    LET game == FindGame(games, gameId)
        playerScores == SelectSeq(game.scores, LAMBDA sc : sc.playerId = playerId)
        n == Len(playerScores)
    IN
    IF game = NoGame THEN NoScore
    ELSE IF n = 0 THEN NoScore
    ELSE ReduceBest(game.isTimeBased, playerScores[n],
                    [i \in 1..(n - 1) |-> playerScores[n - i]])

\* GameStore.getBestScore, NoScore being null
getBestScore(gameId, playerId) ==
    LET game == FindGame(games, gameId)
        playerScores == SelectSeq(game.scores, LAMBDA sc : sc.playerId = playerId)
    IN
    IF game = NoGame THEN NoScore
    ELSE IF Len(playerScores) = 0 THEN NoScore
    ELSE ReduceBest(game.isTimeBased, Head(playerScores), Tail(playerScores))

BoardEntry(player, bestScore) == [player |-> player, bestScore |-> bestScore]

\* this.players.forEach: the players that have a best score, in roster order
BestScoreEntries(gameId) ==
    SelectSeq([i \in 1..Len(players) |->
                  BoardEntry(players[i], getBestScore(gameId, players[i].id))],
              LAMBDA e : e.bestScore # NoScore)

\* leaderboard.sort: ascending values for a time-based game, else descending
SortBoard(isTimeBased, board) ==
    Unkeyed(SortKeyed([i \in 1..Len(board) |->
        Keyed(board[i],
              IF isTimeBased THEN board[i].bestScore.value
              ELSE 0 - board[i].bestScore.value,
              FALSE)]))

getLeaderboardEveryPlayer(gameId, limit) ==
    LET game == FindGame(games, gameId) IN
    IF game = NoGame THEN <<>>
    ELSE Slice0(SortBoard(game.isTimeBased,
                          [i \in 1..Len(players) |->
                              BoardEntry(players[i], getBestScore(gameId, players[i].id))]),
                limit)

getLeaderboardAscending(gameId, limit) ==
    LET game == FindGame(games, gameId) IN
    IF game = NoGame THEN <<>>
    ELSE Slice0(SortBoard(TRUE, BestScoreEntries(gameId)), limit)

\* GameStore.getLeaderboard
getLeaderboard(gameId, limit) ==
    LET game == FindGame(games, gameId) IN
    IF game = NoGame THEN <<>>
    ELSE Slice0(SortBoard(game.isTimeBased, BestScoreEntries(gameId)), limit)

\* getBestScore called by a view
GetBestScore(gameId, playerId) ==
    /\ ret' = [NoRet EXCEPT !.op = "getBestScore", !.id = playerId,
                            !.best = getBestScore(gameId, playerId)]
    /\ UNCHANGED <<storeVars, backend, storage, storageEmpty, ops, nextId, now>>

\* getLeaderboard called by a view; !.id carries the limit
GetLeaderboard(gameId, limit) ==
    /\ ret' = [NoRet EXCEPT !.op = "getLeaderboard", !.id = limit,
                            !.board = getLeaderboard(gameId, limit)]
    /\ UNCHANGED <<storeVars, backend, storage, storageEmpty, ops, nextId, now>>

\* ------------------------------------------------------------- getScores
SortOrder == {"best_first", "worst_first", "newest_first", "oldest_first"}

\* a >= b and a <= b on two Date objects: the comparison of their time values,
\* false when one of them is NaN
DateGE(a, b) == a.k = "Date" /\ b.k = "Date" /\ a.t >= b.t
DateLE(a, b) == a.k = "Date" /\ b.k = "Date" /\ a.t <= b.t

\* an array value: fresh is FALSE while the array is game.scores itself
Arr(fresh, elems) == [fresh |-> fresh, elems |-> elems]

\* let scores = game.scores, the stored array itself
SpreadCopyAliases(scores) == Arr(FALSE, scores)

\* let scores = [...game.scores]
SpreadCopy(scores) == Arr(TRUE, scores)

\* the filters of getScores, each one building a new array
ApplyFilters(a, filter) ==
    LET byPlayer == IF filter.present /\ filter.playerId # 0
                    THEN Arr(TRUE, SelectSeq(a.elems,
                                 LAMBDA sc : sc.playerId = filter.playerId))
                    ELSE a
        byFrom == IF filter.present /\ filter.dateFrom # Undefined
                  THEN Arr(TRUE, SelectSeq(byPlayer.elems,
                               LAMBDA sc : DateGE(sc.achievedAt, filter.dateFrom)))
                  ELSE byPlayer
    IN
    IF filter.present /\ filter.dateTo # Undefined
    THEN Arr(TRUE, SelectSeq(byFrom.elems,
                 LAMBDA sc : DateLE(sc.achievedAt, filter.dateTo)))
    ELSE byFrom

\* the key that scores.sort(...) of getScores orders by, ascending
SortKey(sc, isTimeBased, sortOrder) ==
    CASE sortOrder = "best_first" -> IF isTimeBased THEN sc.value ELSE 0 - sc.value
      [] sortOrder = "worst_first" -> IF isTimeBased THEN 0 - sc.value ELSE sc.value
      [] sortOrder = "newest_first" -> 0 - sc.achievedAt.t
      [] sortOrder = "oldest_first" -> sc.achievedAt.t
      [] OTHER -> 0

\* switch (sortOrder): scores.sort sorts the array in place
SortScores(a, isTimeBased, sortOrder) ==
    IF sortOrder \notin SortOrder THEN a
    ELSE Arr(a.fresh,
             Unkeyed(SortKeyed([i \in 1..Len(a.elems) |->
                 Keyed(a.elems[i], SortKey(a.elems[i], isTimeBased, sortOrder),
                       sortOrder \in {"newest_first", "oldest_first"}
                         /\ IsNaNTime(a.elems[i].achievedAt))])))

\* GameStore.getScores: the array returned and game.scores after the call
getScoresRun(gameId, sortOrder, filter) ==
    LET game == FindGame(games, gameId)
        sorted == SortScores(ApplyFilters(SpreadCopy(game.scores), filter),
                             game.isTimeBased, sortOrder)
    IN
    IF game = NoGame THEN [result |-> <<>>, stored |-> <<>>]
    ELSE [result |-> IF filter.present /\ filter.hasLimit /\ filter.limit # 0
                     THEN Slice0(sorted.elems, filter.limit)
                     ELSE sorted.elems,
          stored |-> IF sorted.fresh THEN game.scores ELSE sorted.elems]

\* GameStore.getScores
getScores(gameId, sortOrder, filter) == getScoresRun(gameId, sortOrder, filter).result

\* getScores called by a view
GetScores(gameId, sortOrder, filter) ==
    /\ ret' = [NoRet EXCEPT !.op = "getScores", !.id = gameId,
                            !.scores = getScores(gameId, sortOrder, filter)]
    /\ games' = [i \in 1..Len(games) |->
                    IF games[i].id = gameId
                    THEN [games[i] EXCEPT
                             !.scores = getScoresRun(gameId, sortOrder, filter).stored]
                    ELSE games[i]]
    /\ UNCHANGED <<currentGame, players, isLoading, error, backend, storage,
                   storageEmpty, ops, nextId, now>>


\* --------------------------------------- the ranking queries on drawn data
RosterNames == << "Alice", "Bob", "Carol", "Dave", "Erin", "Frank", "Grace",
                  "Heidi", "Ivan", "Judy", "Mallory", "Niaj", "Olivia", "Peggy" >>

Roster(n) == [i \in 1..n |-> NewPlayer(i, RosterNames[i], DateOf(0))]

RECURSIVE SeqsUpTo(_, _)
\* the sequences over S of length at most n
SeqsUpTo(S, n) ==
    IF n = 0 THEN {<<>>}
    ELSE SeqsUpTo(S, n - 1) \cup
         {Append(q, x) : q \in {r \in SeqsUpTo(S, n - 1) : Len(r) = n - 1}, x \in S}

\* a score list of two rostered players and one player that is not in the
\* roster, as addScore calls build it
DrawnScores(isTimeBased) ==
    {[i \in 1..Len(q) |->
         NewScore(30 + i, q[i][1], IF q[i][1] = Bob.id THEN "Bob" ELSE "Alice", q[i][2],
                  isTimeBased, DateOf(0))] :
        q \in SeqsUpTo({Alice.id, Bob.id, PriorAliceId} \X Values, MaxScores)}

\* one score for each of n players: rising, falling or equal values
OneScoreEach(n, pattern, isTimeBased) ==
    [i \in 1..n |->
        NewScore(30 + i, i, RosterNames[i],
                 CASE pattern = "rising" -> i
                   [] pattern = "falling" -> n - i
                   [] OTHER -> 955,
                 isTimeBased, DateOf(0))]

RankedGameId == 3

RankedGame(isTimeBased, scores) ==
    [id |-> RankedGameId, name |-> Sprint, isTimeBased |-> isTimeBased,
     scores |-> scores, createdAt |-> Undefined, updatedAt |-> Undefined]

Limits == (0..MaxLimit) \cup {DefaultLimit}

InitRank ==
    /\ \E isTimeBased \in BOOLEAN :
         \/ /\ players = Roster(2)
            /\ \E scores \in DrawnScores(isTimeBased) :
                 games = <<RankedGame(isTimeBased, scores)>>
         \/ \E n \in 0..MaxRoster, pattern \in {"rising", "falling", "equal"} :
              /\ players = Roster(n)
              /\ games = <<RankedGame(isTimeBased, OneScoreEach(n, pattern, isTimeBased))>>
    /\ currentGame = NoGame
    /\ isLoading = FALSE
    /\ error = Null
    /\ backend = "memory"
    /\ storage = <<>>
    /\ storageEmpty = TRUE
    /\ ops = [s \in 1..MaxPending |-> Idle]
    /\ nextId = FirstFreshId
    /\ now = 0
    /\ ret = NoRet

NextRank ==
    \/ \E gameId \in {RankedGameId, UnknownId}, playerId \in PlayerIds \cup {PriorAliceId} :
          GetBestScore(gameId, playerId)
    \/ \E gameId \in {RankedGameId, UnknownId}, limit \in Limits :
          GetLeaderboard(gameId, limit)

SpecRank == InitRank /\ [][NextRank]_vars

\* ------------------------------------------- getScores on drawn score lists
\* the instants of the drawn scores and of the filters' bounds
Dates == 0..MaxDate

\* a score list of two players with drawn values and instants
DatedScores(isTimeBased) ==
    {[i \in 1..Len(q) |->
         NewScore(30 + i, q[i][1], IF q[i][1] = Bob.id THEN "Bob" ELSE "Alice", q[i][2],
                  isTimeBased, DateOf(q[i][3]))] :
        q \in SeqsUpTo({Alice.id, Bob.id} \X Values \X Dates, MaxScores)}

\* the filters passed: none, or each field absent or set
Filters ==
    {NoFilter} \cup
    {Filter(playerId, dateFrom, dateTo, hasLimit, limit) :
        playerId \in {0, Alice.id},
        dateFrom \in {Undefined, DateOf(MaxDate)},
        dateTo \in {Undefined, DateOf(0)},
        hasLimit \in {TRUE},
        limit \in 0..(MaxScores - 1)} \cup
    {Filter(0, Undefined, Undefined, FALSE, 0)}

InitScores ==
    /\ \E isTimeBased \in BOOLEAN :
         \E scores \in DatedScores(isTimeBased) :
            games = <<RankedGame(isTimeBased, scores)>>
    /\ players = Roster(2)
    /\ currentGame = NoGame
    /\ isLoading = FALSE
    /\ error = Null
    /\ backend = "memory"
    /\ storage = <<>>
    /\ storageEmpty = TRUE
    /\ ops = [s \in 1..MaxPending |-> Idle]
    /\ nextId = FirstFreshId
    /\ now = 0
    /\ ret = NoRet

NextScores ==
    \/ \E sortOrder \in SortOrder, filter \in Filters :
          GetScores(RankedGameId, sortOrder, filter)
    \/ \E sortOrder \in SortOrder : GetScores(UnknownId, sortOrder, NoFilter)
    \/ \E playerId \in PlayerIds : GetBestScore(RankedGameId, playerId)
    \/ \E limit \in 0..MaxLimit : GetLeaderboard(RankedGameId, limit)

SpecScores == InitScores /\ [][NextScores]_vars

\* ------------------------------------- the storage services called directly
\* the ids of the documents saved, loaded and deleted
DocIds == {PriorDocs[i].id : i \in 1..Len(PriorDocs)}

\* the score lists of the saved games: none, or two scores
DocScores(isTimeBased) ==
    << <<>>, << NewScore(31, Bob.id, "Bob", 982, isTimeBased, DateOf(MaxDate)),
                NewScore(32, Alice.id, "Alice", 955, isTimeBased, DateOf(0)) >> >>

\* the games handed to saveGame: a document of an earlier session with other
\* scores and timestamps, or without timestamps as createGame builds it
DocGames ==
    {[PriorDocs[i].game EXCEPT !.scores = DocScores(PriorDocs[i].game.isTimeBased)[n],
                               !.createdAt = stamps[1], !.updatedAt = stamps[2]] :
        i \in 1..Len(PriorDocs),
        n \in 1..2,
        stamps \in {<<Undefined, Undefined>>} \cup {<<DateOf(0), DateOf(t)>> : t \in Dates}}

\* a caller awaits a service method: slot 1 holds the call and what it
\* settled to
ServiceCall(c) ==
    /\ \E io \in IOOutcomes(backend, c) :
         LET r == Service(backend, storage, storageEmpty, c, io) IN
         /\ storage' = r.storage
         /\ storageEmpty' = r.empty
         /\ ops' = [ops EXCEPT ![1] = Suspended(c.fn, "ready", c, r.resp, <<>>, <<>>)]
    /\ ret' = NoRet
    /\ UNCHANGED <<storeVars, backend, nextId, now>>

SaveGame(game, stamp) == ServiceCall(SaveCall(game, stamp))
LoadGame(gameId) == ServiceCall(LoadCall(gameId))
ListGames == ServiceCall(ListCall)
DeleteGame(gameId) == ServiceCall(DeleteCall(gameId))

InitStorage ==
    /\ backend \in Backends
    /\ storage = <<>>
    /\ storageEmpty = TRUE
    /\ games = <<>>
    /\ players = <<>>
    /\ currentGame = NoGame
    /\ isLoading = FALSE
    /\ error = Null
    /\ ops = [s \in 1..MaxPending |-> Idle]
    /\ nextId = FirstFreshId
    /\ now = 0
    /\ ret = NoRet

NextStorage ==
    \/ \E game \in DocGames, stamp \in IF backend = "cloud" THEN Dates ELSE {0} :
          SaveGame(game, stamp)
    \/ \E gameId \in DocIds \cup {UnknownId} : LoadGame(gameId)
    \/ ListGames
    \/ \E gameId \in DocIds \cup {UnknownId} : DeleteGame(gameId)

SpecStorage == InitStorage /\ [][NextStorage]_vars

\* ------------------------------------------------- backup and restore
\* the JSON text handed to importData, by the value it parses to: the
\* documents by id and whether the object has the key `empty` set to true;
\* valid is whether JSON.parse accepts the text
Payload(docs, empty) == [valid |-> TRUE, docs |-> docs, empty |-> empty]
InvalidJson == [valid |-> FALSE, docs |-> <<>>, empty |-> FALSE]

ExportCall == [fn |-> "exportData", id |-> 0, game |-> NoGame, stamp |-> 0]
ImportCall(jsonData) ==
    [fn |-> "importData", id |-> 0, game |-> NoGame, stamp |-> 0, jsonData |-> jsonData]

\* { success: true, data: jsonData }
OkData(jsonData) == [kind |-> "ok", error |-> Null, data |-> jsonData, list |-> <<>>]

\* JSON.stringify(games, null, 2) of the stored object
ToJSON(st) == [i \in 1..Len(st) |-> [st[i] EXCEPT !.game = GameToJSON(@)]]

\* StorageService.exportData
LocalExportData(st) == Outcome(st, FALSE, OkData(Payload(ToJSON(st), FALSE)))

\* StorageService.importData: saveGamesToStorage catches a failed write
LocalImportData(st, c, io) ==
    IF ~c.jsonData.valid THEN Outcome(st, FALSE, Fail("Unexpected token"))
    ELSE Outcome(IF io THEN c.jsonData.docs ELSE st, FALSE, Ok(NoGame, <<>>))

\* MemoryStorageService.exportData, both versions
MemoryExportData(st, empty) == Outcome(st, empty, OkData(Payload(ToJSON(st), empty)))

\* MemoryStorageService.importData, both versions: nothing is returned
MemoryImportData(st, empty, c) ==
    IF ~c.jsonData.valid THEN Outcome(st, empty, Rejected("Unexpected token"))
    ELSE Outcome(c.jsonData.docs, c.jsonData.empty, UndefinedResp)

\* exportData and importData of the service; GoogleStorageService has neither
Backup(b, st, empty, c, io) ==
    CASE b = "local" /\ c.fn = "exportData" -> [LocalExportData(st) EXCEPT !.empty = empty]
      [] b = "local" /\ c.fn = "importData" -> [LocalImportData(st, c, io) EXCEPT !.empty = empty]
      [] b \in {"memory", "memoryV1"} /\ c.fn = "exportData" -> MemoryExportData(st, empty)
      [] b \in {"memory", "memoryV1"} /\ c.fn = "importData" -> MemoryImportData(st, empty, c)

\* a caller awaits exportData or importData
BackupCall(c) ==
    /\ backend # "cloud"
    /\ \E io \in IF backend = "local" /\ c.fn = "importData" THEN BOOLEAN ELSE {TRUE} :
         LET r == Backup(backend, storage, storageEmpty, c, io) IN
         /\ storage' = r.storage
         /\ storageEmpty' = r.empty
         /\ ops' = [ops EXCEPT ![1] = Suspended(c.fn, "ready", c, r.resp, <<>>, <<>>)]
    /\ ret' = NoRet
    /\ UNCHANGED <<storeVars, backend, nextId, now>>

\* the backups at hand: of no game, of an earlier session's games, no JSON
\* at all, and what exportData has just returned
Backups ==
    {Payload(<<>>, backend # "local"), Payload(<<PriorDocs[1]>>, FALSE),
     Payload(PriorDocs, FALSE), InvalidJson}
    \cup (IF ops[1].op = "exportData" THEN {ops[1].resp.data} ELSE {})

NextBackup ==
    \/ \E game \in DocGames : SaveGame(game, 0)
    \/ \E gameId \in DocIds \cup {UnknownId} : LoadGame(gameId)
    \/ \E gameId \in DocIds \cup {UnknownId} : DeleteGame(gameId)
    \/ BackupCall(ExportCall)
    \/ \E jsonData \in Backups : BackupCall(ImportCall(jsonData))

SpecBackup == InitStorage /\ [][NextBackup]_vars

\* ------------------------------------------------------------ the claims
\* slot s enters operation op in this step
Starts(s, op) == ops[s].op = "idle" /\ ops'[s].op = op

\* operation op of slot s returns in this step
Returns(s, op) == ops[s].op = op /\ ops'[s].op = "idle"

\* the service reported success to slot s
Succeeded(s) == ops[s].resp.kind = "ok"

\* gs with the game of g's id replaced by g
Replaced(gs, g) == [i \in 1..Len(gs) |-> IF gs[i].id = g.id THEN g ELSE gs[i]]

\* C1: addScore hands saveGame a copy of the game with the new score appended
\* and leaves games alone until saveGame answers; on success the game in
\* memory is replaced by that copy and true is returned; on a failure or a
\* throw false is returned, an error is set and games stays as it was
C1_AddScoreCommit ==
    [][\A s \in Slots :
          /\ Starts(s, "addScore") =>
                LET saved == ops'[s].c.game
                    game == FindGame(games, saved.id)
                IN
                /\ ops'[s].c.fn = "saveGame"
                /\ game # NoGame
                /\ Len(saved.scores) = Len(game.scores) + 1
                /\ saved = [game EXCEPT !.scores =
                              Append(game.scores, saved.scores[Len(saved.scores)])]
                /\ games' = games
          /\ (ops[s].op = "addScore" /\ ops'[s].op = "addScore" /\ ops'[s] # ops[s]) =>
                games' = games
          /\ Returns(s, "addScore") =>
                IF Succeeded(s)
                THEN /\ ret' = Return("addScore", TRUE, 0)
                     /\ games' = Replaced(games, ops[s].c.game)
                ELSE /\ ret' = Return("addScore", FALSE, 0)
                     /\ games' = games
                     /\ error' # Null]_vars

\* addScore returned false after a failed save and the game shown lacks the
\* score that was to be saved
C1_Witness ==
    /\ ret = Return("addScore", FALSE, 0)
    /\ error = "Failed to save game to local storage" \/ error = NetworkError
    /\ \E i \in 1..Len(games) : games[i].id = sampleGame.id /\ Len(games[i].scores) = 2

\* C2: createGame leaves games alone until saveGame answers; on success the
\* new game, without scores, is appended and its id returned; on a failure or
\* a throw null is returned, an error is set and games stays as it was
C2_CreateGameCommit ==
    [][\A s \in Slots :
          /\ Starts(s, "createGame") =>
                /\ ops'[s].c.fn = "saveGame"
                /\ ops'[s].c.game.scores = <<>>
                /\ ops'[s].c.game.id \notin GameIds
                /\ games' = games
          /\ (ops[s].op = "createGame" /\ ops'[s].op = "createGame"
                /\ ops'[s] # ops[s]) => games' = games
          /\ Returns(s, "createGame") =>
                IF Succeeded(s)
                THEN /\ ret' = Return("createGame", TRUE, ops[s].c.game.id)
                     /\ games' = Append(games, ops[s].c.game)
                ELSE /\ ret' = Return("createGame", FALSE, 0)
                     /\ games' = games
                     /\ error' # Null]_vars

\* createGame returned null after a save that failed or threw, and no game
\* was added to the sample game
C2_Witness ==
    /\ ret = Return("createGame", FALSE, 0)
    /\ error # Null
    /\ games = <<sampleGame>>

\* C3: deleteGame asks the service first and leaves games and currentGame alone
\* until it answers; on success the game is removed, currentGame is cleared if
\* it was that game, and true is returned; on a failure or a throw false is
\* returned and games and currentGame stay as they were
C3_DeleteGameCommit ==
    [][\A s \in Slots :
          /\ Starts(s, "deleteGame") =>
                /\ ops'[s].c.fn = "deleteGame"
                /\ games' = games
                /\ currentGame' = currentGame
          /\ (ops[s].op = "deleteGame" /\ ops'[s].op = "deleteGame"
                /\ ops'[s] # ops[s]) => games' = games /\ currentGame' = currentGame
          /\ Returns(s, "deleteGame") =>
                IF Succeeded(s)
                THEN /\ ret' = Return("deleteGame", TRUE, 0)
                     /\ games' = SelectSeq(games, LAMBDA g : g.id # ops[s].c.id)
                     /\ currentGame' = IF currentGame.id = ops[s].c.id THEN NoGame
                                       ELSE currentGame
                ELSE /\ ret' = Return("deleteGame", FALSE, 0)
                     /\ games' = games
                     /\ currentGame' = currentGame
                     /\ error' # Null]_vars

\* the service refused to delete the selected game: deleteGame returned false
\* and the game is still shown and still selected
C3_Witness ==
    /\ ret = Return("deleteGame", FALSE, 0)
    /\ error # Null
    /\ currentGame # NoGame
    /\ currentGame.id \in GameIds
    /\ currentGame.id \notin StoredIds

\* the service has deleted the selected game and deleteGame is about to take
\* it from games and clear the selection
C3_WitnessSuccess ==
    \E s \in Slots :
        /\ ops[s].op = "deleteGame" /\ ops[s].stage = "ready" /\ Succeeded(s)
        /\ currentGame.id = ops[s].c.id
        /\ ops[s].c.id \in GameIds

\* name, trimmed and in lower case, is the name of a game of gs
NameTaken(name, gs) ==
    \E i \in 1..Len(gs) : ToLowerCase(Trim(gs[i].name)) = ToLowerCase(Trim(name))

\* C4: createGame with a name that, trimmed and compared without regard to
\* case, is the name of an existing game is rejected: it returns null and adds
\* no game, so no two games ever share such a name
C4_DuplicateNameRejected ==
    [][\A s \in Slots :
          (Returns(s, "createGame") /\ NameTaken(ops[s].c.game.name, games)) =>
              /\ ret' = Return("createGame", FALSE, 0)
              /\ games' = games]_vars

\* no two games share a name up to case and surrounding blanks
C4_UniqueNames ==
    \A i, j \in 1..Len(games) :
        i # j => ToLowerCase(Trim(games[i].name)) # ToLowerCase(Trim(games[j].name))

\* C5: addScore with a gameId that is not in games returns false with the
\* error "Game not found", never reaches saveGame, and leaves games and the
\* stored documents as they were
C5_AddScoreUnknownGame ==
    [][/\ \A s \in Slots :
             Starts(s, "addScore") => ops'[s].c.game.id \in GameIds
       /\ (ret'.op = "addScore" /\ ops' = ops) =>
             /\ ret' = Return("addScore", FALSE, 0)
             /\ error' = "Game not found"
             /\ games' = games
             /\ storage' = storage]_vars

\* addScore has just refused an id that names no game of the store although
\* a stored document has it
C5_Witness ==
    /\ ret = Return("addScore", FALSE, 0)
    /\ error = "Game not found"
    /\ \A s \in Slots : ops[s].op = "idle"
    /\ StoredIds \ GameIds # {}

\* C6: when listGames succeeds, loadGames asks loadGame for the listed ids in
\* list order, keeps the document of each load that succeeded, skips each that
\* failed, and at the end replaces games by the kept documents in that order
C6_LoadGamesSkipsFailures ==
    [][\A s \in Slots :
          (ops[s].op = "loadGames" /\ ops[s].stage = "ready" /\ ops'[s] # ops[s]) =>
             IF ops[s].c.fn = "listGames"
             THEN Succeeded(s) =>
                    LET ids == [i \in 1..Len(ops[s].resp.list) |-> ops[s].resp.list[i].id]
                    IN
                    IF ids = <<>>
                    THEN games' = <<>> /\ ret' = Return("loadGames", TRUE, 0)
                    ELSE /\ ops'[s].op = "loadGames"
                         /\ ops'[s].c = LoadCall(Head(ids))
                         /\ ops'[s].todo = Tail(ids)
                         /\ ops'[s].loaded = <<>>
                         /\ games' = games
             ELSE LET kept == IF Succeeded(s) /\ ops[s].resp.data # NoGame
                              THEN Append(ops[s].loaded, ops[s].resp.data)
                              ELSE ops[s].loaded
                  IN
                  IF ops[s].todo = <<>>
                  THEN /\ games' = kept
                       /\ ret' = Return("loadGames", TRUE, 0)
                       /\ error' = error
                  ELSE /\ ops'[s].op = "loadGames"
                       /\ ops'[s].c = LoadCall(Head(ops[s].todo))
                       /\ ops'[s].todo = Tail(ops[s].todo)
                       /\ ops'[s].loaded = kept
                       /\ games' = games]_vars

\* loadGames has finished with one of the two listed games: the load of the
\* other one failed
C6_Witness ==
    /\ ret = Return("loadGames", TRUE, 0)
    /\ Len(storage) = 2
    /\ Len(games) = 1
    /\ games[1].id \in StoredIds
    /\ error = Null

\* C7: every score of every game has isTime equal to the game's isTimeBased
C7_ScoreKindMatchesGame ==
    \A i \in 1..Len(games) : \A k \in 1..Len(games[i].scores) :
        games[i].scores[k].isTime = games[i].isTimeBased

\* addScore has added a score to a game that is not time-based
C7_Witness ==
    \E i \in 1..Len(games) :
        /\ ~games[i].isTimeBased
        /\ \E k \in 1..Len(games[i].scores) : games[i].scores[k].id >= FirstFreshId

\* ranking
ScoresOf(gameId, playerId) ==
    SelectSeq(FindGame(games, gameId).scores, LAMBDA sc : sc.playerId = playerId)

QueriedGameIds == GameIds \cup {UnknownId}
QueriedPlayerIds == PlayerIds \cup {PriorAliceId}

\* b is no worse than c in the ranking direction of the game
NoWorse(isTimeBased, b, c) ==
    IF isTimeBased THEN b.value <= c.value ELSE b.value >= c.value

\* C8: getBestScore returns one of the player's scores in the game with the
\* minimum value (time-based) or the maximum value (score-based), the earliest
\* in the score list among those with that value, and null if the game is
\* unknown or the player has no score in it
C8_BestScore ==
    \A gameId \in QueriedGameIds, playerId \in QueriedPlayerIds :
        LET mine == ScoresOf(gameId, playerId)
            best == getBestScore(gameId, playerId)
        IN
        IF gameId \notin GameIds \/ mine = <<>> THEN best = NoScore
        ELSE \E i \in 1..Len(mine) :
                /\ best = mine[i]
                /\ \A j \in 1..Len(mine) :
                      NoWorse(FindGame(games, gameId).isTimeBased, best, mine[j])
                /\ \A j \in 1..(i - 1) : mine[j].value # best.value

\* a player's best value is tied between two of the player's scores and the
\* call returned the earlier one
C8_Witness ==
    /\ ret.op = "getBestScore"
    /\ ret.best # NoScore
    /\ \E i, j \in 1..Len(ScoresOf(RankedGameId, ret.id)) :
          /\ i < j
          /\ ScoresOf(RankedGameId, ret.id)[i] = ret.best
          /\ ScoresOf(RankedGameId, ret.id)[j].value = ret.best.value

ScoringPlayers(gameId) ==
    {i \in 1..Len(players) : ScoresOf(gameId, players[i].id) # <<>>}

\* C9: getLeaderboard has no entry of a player without a score in the game and
\* exactly min(limit, number of rostered players with a score) entries, the
\* default limit being 10
C9_LeaderboardSize ==
    \A gameId \in QueriedGameIds, limit \in Limits :
        LET board == getLeaderboard(gameId, limit) IN
        /\ \A k \in 1..Len(board) :
              /\ \E i \in ScoringPlayers(gameId) : players[i] = board[k].player
              /\ board[k].bestScore # NoScore
        /\ Len(board) = Min(limit, Cardinality(ScoringPlayers(gameId)))
        /\ Len(board) <= limit

\* more than ten players have scores and the default limit kept ten entries
C9_Witness ==
    /\ ret.op = "getLeaderboard"
    /\ ret.id = DefaultLimit
    /\ Cardinality(ScoringPlayers(RankedGameId)) > DefaultLimit
    /\ Len(ret.board) = DefaultLimit

\* the game of the scenario: time-based Sprint with Alice 95.5, then Bob 98.2
SprintScenario ==
    /\ Len(games) = 1
    /\ games[1].name = Sprint
    /\ games[1].isTimeBased
    /\ Len(games[1].scores) = 2
    /\ games[1].scores[1].playerId = Alice.id /\ games[1].scores[1].value = 955
    /\ games[1].scores[2].playerId = Bob.id /\ games[1].scores[2].value = 982
    /\ Len(players) = 2 /\ players[1].name = "Alice" /\ players[2].name = "Bob"

\* C10: every entry pairs a player with that player's getBestScore; without a
\* limit the entries are ordered best first in the game's direction, and a
\* limit keeps the first entries of that order, so no dropped entry is better
\* than a kept one; the Sprint scenario yields [Alice 95.5, Bob 98.2]
C10_LeaderboardOrder ==
    /\ \A gameId \in QueriedGameIds, limit \in Limits :
          LET board == getLeaderboard(gameId, limit)
              whole == getLeaderboard(gameId, Len(players))
              isTimeBased == FindGame(games, gameId).isTimeBased
          IN
          /\ \A k \in 1..Len(board) :
                board[k].bestScore = getBestScore(gameId, board[k].player.id)
          /\ \A k \in 1..(Len(whole) - 1) :
                NoWorse(isTimeBased, whole[k].bestScore, whole[k + 1].bestScore)
          /\ board = SubSeq(whole, 1, Len(board))
          /\ \A k \in 1..Len(board), d \in (Len(board) + 1)..Len(whole) :
                NoWorse(isTimeBased, board[k].bestScore, whole[d].bestScore)
    /\ SprintScenario =>
          LET board == getLeaderboard(games[1].id, DefaultLimit) IN
          /\ Len(board) = 2
          /\ board[1].player.name = "Alice" /\ board[1].bestScore.value = 955
          /\ board[2].player.name = "Bob" /\ board[2].bestScore.value = 982

\* a limit cut a board of a score-based game whose entries had different
\* values, in an order other than the roster's
C10_Witness ==
    /\ ret.op = "getLeaderboard"
    /\ ~games[1].isTimeBased
    /\ Len(ret.board) >= 2
    /\ Cardinality(ScoringPlayers(RankedGameId)) > Len(ret.board)
    /\ ret.board[1].bestScore.value > ret.board[2].bestScore.value
    /\ ret.board[1].player.id > ret.board[2].player.id

\* the claims about getScores
Reverse(q) == [i \in 1..Len(q) |-> q[Len(q) + 1 - i]]

\* C11: for every game and every score list, ties in value included,
\* getScores(id, BEST_FIRST) is element for element the reverse of
\* getScores(id, WORST_FIRST)
C11_BestIsReverseOfWorst ==
    \A gameId \in GameIds :
        getScores(gameId, "best_first", NoFilter)
            = Reverse(getScores(gameId, "worst_first", NoFilter))

\* C12: getScores, getBestScore and getLeaderboard leave games, with the order
\* and contents of every stored score list, players, currentGame, isLoading
\* and error as they were, whatever the sort order and the filter
C12_QueriesReadOnly ==
    [][ret'.op \in {"getScores", "getBestScore", "getLeaderboard"} =>
          /\ games' = games
          /\ players' = players
          /\ currentGame' = currentGame
          /\ isLoading' = isLoading
          /\ error' = error]_vars

\* getScores returned all the scores of the game in another order than the
\* stored one, and the stored list is still in the order the scores were added
C12_Witness ==
    /\ ret.op = "getScores"
    /\ Len(ret.scores) = Len(games[1].scores)
    /\ ret.scores # games[1].scores
    /\ \A k \in 1..Len(games[1].scores) : games[1].scores[k].id = 30 + k

\* the scores of the game that pass the player and date conditions of filter
Passing(gameId, filter) ==
    SelectSeq(FindGame(games, gameId).scores,
              LAMBDA sc :
                 /\ (filter.present /\ filter.playerId # 0) => sc.playerId = filter.playerId
                 /\ (filter.present /\ filter.dateFrom.k = "Date") =>
                       sc.achievedAt.t >= filter.dateFrom.t
                 /\ (filter.present /\ filter.dateTo.k = "Date") =>
                       sc.achievedAt.t <= filter.dateTo.t)

\* a comes no later than b in the given sort order
InOrder(isTimeBased, sortOrder, a, b) ==
    CASE sortOrder = "best_first" -> NoWorse(isTimeBased, a, b)
      [] sortOrder = "worst_first" -> NoWorse(isTimeBased, b, a)
      [] sortOrder = "newest_first" -> a.achievedAt.t >= b.achievedAt.t
      [] OTHER -> a.achievedAt.t <= b.achievedAt.t

\* C18: getScores filters by playerId, achievedAt >= dateFrom and achievedAt <=
\* dateTo first, then sorts in the given order, and caps last: the result is
\* the first limit elements of the sorted filtered list; an unknown gameId
\* yields the empty list
C18_FilterSortCap ==
    /\ \A sortOrder \in SortOrder : getScores(UnknownId, sortOrder, NoFilter) = <<>>
    /\ \A gameId \in GameIds, sortOrder \in SortOrder, filter \in Filters :
          LET whole == getScores(gameId, sortOrder, [filter EXCEPT !.hasLimit = FALSE])
              passing == Passing(gameId, filter)
              isTimeBased == FindGame(games, gameId).isTimeBased
          IN
          /\ Len(whole) = Len(passing)
          /\ \A k \in 1..Len(passing) : \E j \in 1..Len(whole) : whole[j] = passing[k]
          /\ \A k \in 1..(Len(whole) - 1) :
                InOrder(isTimeBased, sortOrder, whole[k], whole[k + 1])
          /\ getScores(gameId, sortOrder, filter)
                = IF filter.present /\ filter.hasLimit
                  THEN SubSeq(whole, 1, Min(filter.limit, Len(whole)))
                  ELSE whole

\* the claims about the storage services
\* the service method fn has just been called and has settled
Called(fn) == ops'[1] # ops[1] /\ ops'[1].op = fn

\* a game with every timestamp set
ValidGame(g) ==
    /\ g.createdAt.k = "Date"
    /\ g.updatedAt.k = "Date"
    /\ \A k \in 1..Len(g.scores) : g.scores[k].achievedAt.k = "Date"

\* the games stored, by id, whatever the order and the metadata of the files
Documents(st) == {<<st[i].id, st[i].game>> : i \in 1..Len(st)}

\* game g is what st holds under g's id, as an object or in its JSON form
Holds(st, g) == HasDoc(st, g.id) /\ DocOf(st, g.id).game \in {g, GameToJSON(g)}

\* C13: for a valid game g, loadGame(g.id) right after a saveGame(g) that
\* reported success on the same backend returns success with a game equal to
\* g in every field, the scores and their order included
C13_SaveLoadRoundTrip ==
    [][(/\ ops[1].op = "saveGame" /\ Succeeded(1)
        /\ ValidGame(ops[1].c.game)
        /\ Called("loadGame")
        /\ ops'[1].c.id = ops[1].c.id
        /\ ops'[1].resp.error # NetworkError)
       => ops'[1].resp = Ok(ops[1].c.game, <<>>)]_vars

\* C14: loadGame and deleteGame of an id without a stored document return a
\* failure result on every backend and leave the stored documents unchanged
C14_MissingIdFails ==
    [][((Called("loadGame") \/ Called("deleteGame")) /\ ~HasDoc(storage, ops'[1].c.id))
       => /\ ops'[1].resp.kind = "fail"
          /\ storage' = storage]_vars

\* C15: saveGame and deleteGame report success only if their change was
\* applied: after a reported success the game is stored, or the document is
\* gone; after a reported failure the stored documents are unchanged
C15_SuccessMeansApplied ==
    [][/\ (Called("saveGame") /\ ops'[1].resp.kind = "ok")
             => Holds(storage', ops'[1].c.game)
       /\ (Called("deleteGame") /\ ops'[1].resp.kind = "ok")
             => ~HasDoc(storage', ops'[1].c.id)
       /\ ((Called("saveGame") \/ Called("deleteGame")) /\ ops'[1].resp.kind = "fail")
             => storage' = storage]_vars

\* C19: a saveGame(g) that reported success has stored g under g.id in place
\* of any earlier document of that id, has left the documents of the other
\* ids unchanged, and saving g once more leaves the documents as they are
C19_SaveIsIdempotentUpsert ==
    [][(Called("saveGame") /\ ops'[1].resp.kind = "ok")
       => LET c == ops'[1].c IN
          /\ Holds(storage', c.game)
          /\ Cardinality({i \in 1..Len(storage') : storage'[i].id = c.id}) = 1
          /\ {d \in Documents(storage') : d[1] # c.id}
                = {d \in Documents(storage) : d[1] # c.id}
          /\ \A io \in IOOutcomes(backend, c) :
                LET again == Service(backend, storage', storageEmpty', c, io) IN
                again.resp.kind = "ok" => Documents(again.storage) = Documents(storage')]_vars

\* C20: listGames returns success with one summary {id, name, updatedAt} for
\* each stored game and none else, ordered by updatedAt descending
C20_ListGamesSummaries ==
    [][(Called("listGames") /\ ops'[1].resp.error # NetworkError)
       => LET list == ops'[1].resp.list IN
          /\ ops'[1].resp.kind = "ok"
          /\ Len(list) = Len(storage)
          /\ \A i \in 1..Len(storage) :
                \E k \in 1..Len(list) :
                    list[k].id = storage[i].id /\ list[k].name = storage[i].game.name
          /\ \A k \in 1..(Len(list) - 1) :
                (list[k].updatedAt.k = "Date" /\ list[k + 1].updatedAt.k = "Date")
                    => list[k].updatedAt.t >= list[k + 1].updatedAt.t]_vars

\* the claims about the store's validation and failed list fetches
\* C16: addScore with a value below 0 is rejected: it returns false, calls no
\* saveGame and leaves games as it was, so no game ever holds a score with a
\* negative value
C16_NegativeValueRejected ==
    [][\A s \in Slots :
          Starts(s, "addScore") =>
             LET saved == ops'[s].c.game IN
             saved.scores[Len(saved.scores)].value >= 0]_vars

\* no score of any game has a negative value
C16_NoNegativeScore ==
    \A i \in 1..Len(games) : \A k \in 1..Len(games[i].scores) :
        games[i].scores[k].value >= 0

\* C17: when listGames reports a failure or throws, loadGames sets error to a
\* message, calls no loadGame and nothing else of the service, leaves games,
\* players and currentGame as they were before the call, and returns with
\* isLoading false
C17_ListFailureIsFailStop ==
    [][\A s \in Slots :
          /\ Starts(s, "loadGames") =>
                /\ ops'[s].c = ListCall
                /\ games' = games /\ players' = players /\ currentGame' = currentGame
          /\ (ops[s].op = "loadGames" /\ ops[s].c = ListCall /\ ops'[s] # ops[s]
                /\ ops'[s].op = "loadGames" /\ ops'[s].c = ListCall) =>
                games' = games /\ players' = players /\ currentGame' = currentGame
          /\ (ops[s].op = "loadGames" /\ ops[s].stage = "ready" /\ ops[s].c = ListCall
                /\ ~Succeeded(s) /\ ops'[s] # ops[s]) =>
                /\ ops'[s] = Idle
                /\ ret' = Return("loadGames", FALSE, 0)
                /\ error' # Null
                /\ ~isLoading'
                /\ games' = games /\ players' = players /\ currentGame' = currentGame
                /\ storage' = storage]_vars

\* loadGames has returned after a failed list fetch: the error is set, loading
\* is over, and the sample game is still shown and selected
C17_Witness ==
    /\ ret = Return("loadGames", FALSE, 0)
    /\ error # Null
    /\ ~isLoading
    /\ games = <<sampleGame>>
    /\ currentGame = sampleGame
    /\ \A s \in Slots : ops[s] = Idle

\* the claims about timestamps, score lists, players and the selection
\* C22: every game in games carries createdAt and updatedAt, and updatedAt is
\* not before createdAt
C22_Timestamps ==
    \A i \in 1..Len(games) :
        /\ games[i].createdAt.k = "Date"
        /\ games[i].updatedAt.k = "Date"
        /\ games[i].updatedAt.t >= games[i].createdAt.t

\* p is a prefix of q
IsPrefix(p, q) == Len(p) <= Len(q) /\ SubSeq(q, 1, Len(p)) = p

\* the score list of the document of st with the given id, dates as Date objects
StoredScores(st, id) == deserializeGame(GameToJSON(DocOf(st, id).game)).scores

\* C23: as long as a game is not deleted, its score list before a step is a
\* prefix of its score list after the step, in games and in the stored
\* document, and a successful addScore lengthens it by exactly one
C23_ScoresAppendOnly ==
    [][/\ \A i \in 1..Len(games) :
             (/\ games[i].id \in {games'[j].id : j \in 1..Len(games')}
              /\ ~\E s \in Slots : Returns(s, "deleteGame") /\ ops[s].c.id = games[i].id)
             => IsPrefix(games[i].scores, FindGame(games', games[i].id).scores)
       /\ \A i \in 1..Len(storage) :
             HasDoc(storage', storage[i].id)
             => IsPrefix(StoredScores(storage, storage[i].id),
                         StoredScores(storage', storage[i].id))
       /\ \A s \in Slots :
             (Returns(s, "addScore") /\ ret'.ok /\ HasDoc(games, ops[s].c.id))
             => Len(FindGame(games', ops[s].c.id).scores)
                   = Len(FindGame(games, ops[s].c.id).scores) + 1]_vars

C27_MemoryMatchesStorage ==
    (\A s \in Slots : ops[s].op = "idle") =>
        \A i \in 1..Len(games) :
            /\ HasDoc(storage, games[i].id)
            /\ LET doc == deserializeGame(GameToJSON(DocOf(storage, games[i].id).game)) IN
               /\ doc.name = games[i].name
               /\ doc.isTimeBased = games[i].isTimeBased
               /\ doc.scores = games[i].scores

\* C28: whenever currentGame is not none, it is the game of games with the
\* same id, score list included
C28_CurrentGameIsShown ==
    currentGame # NoGame =>
        /\ currentGame.id \in GameIds
        /\ FindGame(games, currentGame.id) = currentGame

\* ---------------------------------------------- claims about overlapping operations
\* the ids of the scores of a list
ScoreIds(scores) == {scores[i].id : i \in 1..Len(scores)}

\* the score that the addScore of slot s appended to its copy of the game
OwnScore(s) == ops[s].c.game.scores[Len(ops[s].c.game.scores)]

\* the scores of the game in memory that the copy of slot s does not hold:
\* committed by another addScore after slot s took its copy
CommittedMeanwhile(s) ==
    IF HasDoc(games, ops[s].c.id)
    THEN ScoreIds(FindGame(games, ops[s].c.id).scores) \ ScoreIds(ops[s].c.game.scores)
    ELSE {}

\* C25: when an addScore returns true for a game to which another addScore,
\* overlapping with it, has committed a score, both scores are in the game's
\* score list afterwards, in memory and in the stored document
C25_NoLostUpdate ==
    [][\A s \in Slots :
          (/\ Returns(s, "addScore") /\ ret'.ok
           /\ CommittedMeanwhile(s) # {}
           /\ HasDoc(games', ops[s].c.id))
          => /\ CommittedMeanwhile(s) \cup {OwnScore(s).id}
                   \subseteq ScoreIds(FindGame(games', ops[s].c.id).scores)
             /\ HasDoc(storage', ops[s].c.id)
             /\ CommittedMeanwhile(s) \cup {OwnScore(s).id}
                   \subseteq ScoreIds(DocOf(storage', ops[s].c.id).game.scores)]_vars

\* the ids of the documents the loadGames of slot s listed and loaded
Seen(s) ==
    IF ops[s].c.fn = "listGames"
    THEN {ops[s].resp.list[i].id : i \in 1..Len(ops[s].resp.list)}
    ELSE {ops[s].loaded[i].id : i \in 1..Len(ops[s].loaded)} \cup {ops[s].c.id}

\* the loadGames of slot s cannot have skipped a listed document
NothingSkipped(s) == ops[s].c.fn = "listGames" \/ backend # "cloud"

\* C26: a game that createGame committed and a score that addScore committed
\* while a loadGames was in flight are still in games when that loadGames
\* completes, unless the game was deleted
C26_LoadKeepsCommitted ==
    [][\A s \in Slots :
          (Returns(s, "loadGames") /\ ret'.ok /\ NothingSkipped(s)) =>
             \A i \in 1..Len(games) :
                HasDoc(storage, games[i].id) =>
                   /\ (games[i].id \notin Seen(s) /\ games[i].id # sampleGame.id)
                         => games[i].id \in {games'[j].id : j \in 1..Len(games')}
                   /\ games[i].id \in {games'[j].id : j \in 1..Len(games')} =>
                         (ScoreIds(games[i].scores)
                             \cap ScoreIds(DocOf(storage, games[i].id).game.scores))
                         \subseteq ScoreIds(FindGame(games', games[i].id).scores)]_vars

\* C29: isLoading is true whenever a loadGames, createGame, addScore or
\* deleteGame has started and not yet completed
C29_LoadingWhileInFlight ==
    (\E s \in Slots : ops[s].op # "idle") => isLoading

\* ---------------------------------------------- the claim about backups
\* the ids of the documents of a backup
PayloadIds(jsonData) == {jsonData.docs[i].id : i \in 1..Len(jsonData.docs)}

\* loadGame(id) on the service as it is after the step
LoadsAfter(id) == Service(backend, storage', storageEmpty', LoadCall(id), TRUE).resp

\* C21: importData(payload) replaces the whole store: afterwards the stored ids
\* are exactly the ids of payload and loadGame of a game stored before and
\* absent from payload reports not found; importData of what exportData has
\* just returned leaves the stored state unchanged
C21_ImportReplaces ==
    [][(Called("importData") /\ ops'[1].c.jsonData.valid) =>
          LET jsonData == ops'[1].c.jsonData IN
          /\ StoredIds' = PayloadIds(jsonData)
          /\ \A id \in StoredIds \ PayloadIds(jsonData) : LoadsAfter(id).kind = "fail"
          /\ (ops[1].op = "exportData" /\ jsonData = ops[1].resp.data)
                => storage' = storage /\ storageEmpty' = storageEmpty]_vars

\* ------------------------------------------------ the claim about completion
\* the asynchronous operations of the store
StoreOps == {"loadGames", "createGame", "addScore", "deleteGame"}

\* C30: every loadGames, createGame, addScore and deleteGame that has started
\* completes, whatever its service calls settle to, by returning a value
\* rather than throwing; when no operation is in flight isLoading is false; an
\* operation that completes by a failing path leaves error set
C30_OperationsComplete ==
    /\ \A s \in 1..MaxPending : (ops[s].op \in StoreOps) ~> (ops[s].op = "idle")
    /\ []((\A s \in 1..MaxPending : ops[s].op = "idle") => ~isLoading)
    /\ [][\A s \in 1..MaxPending :
             (ops[s].op \in StoreOps /\ ops'[s].op = "idle") =>
                /\ ret'.op = ops[s].op
                /\ ~ret'.ok => error' # Null]_vars

\* createGame has completed on the service whose saveGame returns undefined:
\* the TypeError was caught, error is set and isLoading is false again
C30_Witness ==
    /\ backend = "memoryV1"
    /\ ret.op = "createGame" /\ ~ret.ok
    /\ error # Null
    /\ ~isLoading
    /\ \A s \in Slots : ops[s].op = "idle"

====
